---- MODULE Spec2Model ----
(***************************************************************************)
(* A model of src/main.py: the folder-name sanitizer clean_folder_name,    *)
(* the attachment downloader download_attachments and the fetch-and-export *)
(* loop get_issues, run any number of times against one exports directory. *)
(*                                                                         *)
(* Python strings that the program inspects character by character (issue  *)
(* summaries, folder names) are sequences of one-character strings.        *)
(* Strings the program only copies (ids, texts, urls, attachment names)    *)
(* are TLA+ strings.  The text of a file is the sequence of the pieces     *)
(* written to it.                                                          *)
(***************************************************************************)
EXTENDS Integers, Sequences, FiniteSets, TLC

\* Bounds of the model.
MaxTitleLen == 4
MaxIssues == 2

\* src/main.py:10
ID_PAD_LENGTH == 3

\* src/main.py:15
BASE_YOUTRACK_URL == "https://ferryhoppers.myjetbrains.com"

-----------------------------------------------------------------------------
(* Python string helpers, on sequences of characters *)

LowerCase == <<"a","b","c","d","e","f","g","h","i","j","k","l","m",
               "n","o","p","q","r","s","t","u","v","w","x","y","z">>
UpperCase == <<"A","B","C","D","E","F","G","H","I","J","K","L","M",
               "N","O","P","Q","R","S","T","U","V","W","X","Y","Z">>

\* str.upper() on one ASCII character
UpperChar(c) ==
  IF \E k \in 1..Len(LowerCase) : LowerCase[k] = c
    THEN UpperCase[CHOOSE k \in 1..Len(LowerCase) : LowerCase[k] = c]
    ELSE c

\* name.upper()
Upper(name) == [k \in 1..Len(name) |-> UpperChar(name[k])]

\* name.replace(char, "")
RemoveChar(name, char) == SelectSeq(name, LAMBDA x : x # char)

\* name.replace(" ", space_replacement)
RECURSIVE ReplaceSpace(_, _)
ReplaceSpace(name, space_replacement) ==
  IF name = <<>> THEN <<>>
  ELSE (IF Head(name) = " " THEN space_replacement ELSE <<Head(name)>>)
         \o ReplaceSpace(Tail(name), space_replacement)

\* name.startswith(".")
StartsWithDot(name) == Len(name) > 0 /\ name[1] = "."

Digits == <<"0","1","2","3","4","5","6","7","8","9">>

\* str(n) for n >= 0
RECURSIVE Str(_)
Str(n) == IF n < 10 THEN <<Digits[n + 1]>>
          ELSE Str(n \div 10) \o <<Digits[(n % 10) + 1]>>

\* s.zfill(width) for an unsigned s: pads on the left, never truncates
RECURSIVE zfill(_, _)
zfill(s, width) == IF Len(s) >= width THEN s ELSE zfill(<<"0">> \o s, width)

-----------------------------------------------------------------------------
(* clean_folder_name *)

invalid_chars == <<"<", ">", ":", "\"", "/", "\\", "|", "?", "*">>

\* for char in invalid_chars: name = name.replace(char, "")
RECURSIVE RemoveInvalidFrom(_, _)
RemoveInvalidFrom(name, k) ==
  IF k > Len(invalid_chars) THEN name
  ELSE RemoveInvalidFrom(RemoveChar(name, invalid_chars[k]), k + 1)

RemoveInvalid(name) == RemoveInvalidFrom(name, 1)

reserved_names ==
  { <<"C","O","N">>, <<"P","R","N">>, <<"A","U","X">>, <<"N","U","L">> }
  \cup { <<"C","O","M",Digits[d]>> : d \in 2..10 }
  \cup { <<"L","P","T",Digits[d]>> : d \in 2..10 }

NeedsPrefixAlways(name) == TRUE

NeedsPrefixCaseSensitive(name) == name \in reserved_names \/ StartsWithDot(name)

\* name.upper() in reserved_names or name.startswith(".")
NeedsPrefix(name) == Upper(name) \in reserved_names \/ StartsWithDot(name)

clean_folder_name_args(name, replace_space, space_replacement) ==
  LET stripped == RemoveInvalid(name)
      spaced   == IF replace_space THEN ReplaceSpace(stripped, space_replacement)
                  ELSE stripped
  IN  IF NeedsPrefix(spaced) THEN <<"_">> \o spaced ELSE spaced

\* the call with the default arguments replace_space=True, space_replacement="_"
clean_folder_name(name) == clean_folder_name_args(name, TRUE, <<"_">>)

-----------------------------------------------------------------------------
(* The remote data: the issue records the list request can return.  A key  *)
(* the program reads with issue["k"] and that a record lacks raises        *)
(* KeyError there.  Attachment names are plain file names (no path         *)
(* separator); the program uses them verbatim, so one may be content.txt.  *)

Has(record, key) == key \in DOMAIN record

CommentOk ==
  [ author |-> [name |-> "ann"], created |-> 1700123, deleted |-> FALSE,
    text |-> "first", reactions |-> << [author |-> [name |-> "bob"], reaction |-> "thumbs-up"] >> ]

\* a comment record without its "text"
CommentNoText ==
  [ author |-> [name |-> "bob"], created |-> 1800999, deleted |-> TRUE,
    reactions |-> <<>> ]

Pool ==
  << [ idReadable |-> "DR-7", numberInProject |-> 7,
       summary |-> <<"a",":"," ","b","/","c">>,
       project |-> [shortName |-> <<"D","R">>],
       description |-> "text of 7",
       comments |-> <<CommentOk>>,
       attachments |-> << [name |-> "a.png", url |-> "/api/files/1"],
                          [name |-> "b.png", url |-> "/api/files/2"] >> ],
     [ idReadable |-> "DR-7", numberInProject |-> 7,
       summary |-> <<"a"," ","b","c">>,
       project |-> [shortName |-> <<"D","R">>],
       attachments |-> << [name |-> "content.txt", url |-> "/api/files/3"] >> ],
     [ idReadable |-> "DR-8", numberInProject |-> 8,
       summary |-> <<"C","O","N">>,
       project |-> [shortName |-> <<"D","R">>],
       description |-> "text of 8",
       comments |-> <<CommentOk, CommentNoText>>,
       attachments |-> <<>> ],
     [ idReadable |-> "DR-8", numberInProject |-> 8,
       summary |-> <<"C","O","N">>,
       project |-> [shortName |-> <<"D","R">>],
       comments |-> <<>>,
       attachments |-> << [name |-> "a.png", url |-> "/api/files/1"],
                          [url |-> "/api/files/4"] >> ],
     [ idReadable |-> "DR-9", numberInProject |-> 9,
       project |-> [shortName |-> <<"D","R">>] ] >>

PoolIds == 1..Len(Pool)

\* the lists of issues one list request can return
IssueLists == UNION { [1..n -> PoolIds] : n \in 0..MaxIssues }

ListStatuses == {200, 403}

AttachmentStatuses == {200, 404}

\* response.text of a failed list request
ListBody(status) == IF status = 403 THEN "Forbidden" ELSE "OK"

\* the bytes the tracker serves at a relative url
Bytes(url) == <<"bytes of ", BASE_YOUTRACK_URL, url>>

-----------------------------------------------------------------------------
(* get_issues: the target path and content.txt *)

\* issue["idReadable"], issue["numberInProject"], issue["summary"], issue["project"]["shortName"]
HeaderOk(issue) ==
  /\ Has(issue, "idReadable") /\ Has(issue, "numberInProject")
  /\ Has(issue, "summary") /\ Has(issue, "project")
  /\ Has(issue.project, "shortName")

FolderName(issue) ==
  issue.project.shortName \o <<"-">>
    \o zfill(Str(issue.numberInProject), ID_PAD_LENGTH) \o <<"-">>
    \o clean_folder_name(issue.summary)

\* os.path.join("exports", folder name)
issue_target_path(issue) == <<"exports", "/">> \o FolderName(issue)

Paths == { issue_target_path(Pool[p]) : p \in { q \in PoolIds : HeaderOk(Pool[q]) } }

\* What a sequence of f.write calls leaves in the file: out, and ok = FALSE
\* when a KeyError ended it (the with block closes the file as written so far).
Write(w, pieces) == [out |-> w.out \o pieces, ok |-> w.ok]
Fault(w) == [out |-> w.out, ok |-> FALSE]

PyBool(b) == IF b THEN "True" ELSE "False"

\* datetime.fromtimestamp(ms / 1000, tz=utc).isoformat(timespec="seconds"):
\* the instant cut to whole seconds, named by its count of seconds
isoformat_seconds(ms) == <<"utc second ">> \o Str(ms \div 1000)

RECURSIVE RenderReactions(_, _, _)
RenderReactions(w, reactions, k) ==
  IF k > Len(reactions) THEN w
  ELSE LET r == reactions[k] IN
       IF Has(r, "author") /\ Has(r.author, "name") /\ Has(r, "reaction")
         THEN RenderReactions(
                Write(w, <<"    ", r.author.name, ": ", r.reaction, "\n">>),
                reactions, k + 1)
         ELSE Fault(w)

RenderComment(w, comment) ==
  IF ~(Has(comment, "created") /\ Has(comment, "author") /\ Has(comment.author, "name"))
    THEN Fault(w)
  ELSE
    LET w1 == Write(w, <<"\n\n---\n---\n", "Comment by ", comment.author.name, " at ">>
                         \o isoformat_seconds(comment.created) \o <<"\n">>)
    IN IF ~Has(comment, "deleted") THEN Fault(w1)
       ELSE
         LET w2 == Write(w1, <<"Deleted: ", PyBool(comment.deleted), "\n", "Reactions:\n">>)
         IN IF ~Has(comment, "reactions") THEN Fault(w2)
            ELSE
              LET w3 == RenderReactions(w2, comment.reactions, 1)
              IN IF ~w3.ok THEN w3
                 ELSE IF ~Has(comment, "text") THEN Fault(w3)
                 ELSE Write(w3, <<"\n", comment.text, "\n">>)

RECURSIVE RenderComments(_, _, _)
RenderComments(w, comments, k) ==
  IF ~w.ok \/ k > Len(comments) THEN w
  ELSE RenderComments(RenderComment(w, comments[k]), comments, k + 1)

\* the body of "with open(.../content.txt, 'w') as f"
RenderIssue(issue) ==
  LET w1 == [out |-> <<"# ", issue.idReadable, " - ">> \o issue.summary \o <<"\n\n">>,
             ok |-> TRUE]
      w2 == Write(w1, << (IF Has(issue, "description") THEN issue.description
                          ELSE "No description"), "\n\n" >>)
      w3 == Write(w2, <<"\n# Comments">>)
  IN RenderComments(w3, IF Has(issue, "comments") THEN issue.comments ELSE <<>>, 1)

-----------------------------------------------------------------------------
(* download_attachments *)

DownloadOkAny(status) == TRUE

\* response.status_code == 200
DownloadOk(status) == status = 200

\* The loop over attachments from the k-th on.  d.files: the files of the
\* issue folder; d.sent: the attachments a request was sent for; d.stored:
\* those a file was written for; d.ok = FALSE when a KeyError ended the loop.
RECURSIVE DownloadFrom(_, _, _, _)
DownloadFrom(d, attachments, status, k) ==
  IF ~d.ok \/ k > Len(attachments) THEN d
  ELSE
    LET a == attachments[k] IN
    IF ~Has(a, "url") THEN [d EXCEPT !.ok = FALSE]
    ELSE
      LET sent == [d EXCEPT !.sent = @ \cup {k}] IN
      IF ~DownloadOk(status[k]) THEN DownloadFrom(sent, attachments, status, k + 1)
      ELSE IF ~Has(a, "name") THEN [sent EXCEPT !.ok = FALSE]
      ELSE DownloadFrom(
             [sent EXCEPT !.files = (a.name :> Bytes(a.url)) @@ @,
                          !.stored = @ \cup {k}],
             attachments, status, k + 1)

download_attachments(files, attachments, status) ==
  DownloadFrom([files |-> files, sent |-> {}, stored |-> {}, ok |-> TRUE],
               attachments, status, 1)

\* "attachments" in issue and issue["attachments"]
HasAttachments(issue) == Has(issue, "attachments") /\ issue.attachments # <<>>

AttachmentsOf(issue) == IF HasAttachments(issue) THEN issue.attachments ELSE <<>>

-----------------------------------------------------------------------------
(* The state *)

VARIABLES
  remote,        \* the tracker's issues of the project, as indices into Pool
  fs,            \* the exports directory: target path -> [kind, files]
  pc,            \* "idle" (no call running), "loop", "done" (returned after the
                 \* loop), "failed" (returned after a failed list request), "crashed"
  response,      \* status of the list request of the running call (0: none sent)
  issues,        \* response.json() of the running call, as indices into Pool
  full_refresh,  \* the argument of the running call
  i,             \* position of the loop in issues
  console,       \* what the running call printed
  writes,        \* filesystem writes of the running call
  requests,      \* attachment requests of the running call: <<issue, attachment, status>>
  skipped,       \* positions the running call skipped
  prevRun,       \* "plain"/"refresh": the call before returned after its loop over
                 \* what remote holds now (without/with full_refresh); else "none"
  partial,       \* target paths whose last export was ended by a fault
  title, cleaned, recleaned, cstage   \* an application of clean_folder_name

runVars == <<remote, fs, pc, response, issues, full_refresh, i, console, writes, requests,
             skipped, prevRun, partial>>
cleanVars == <<title, cleaned, recleaned, cstage>>
vars == <<remote, fs, pc, response, issues, full_refresh, i, console, writes, requests,
          skipped, prevRun, partial, title, cleaned, recleaned, cstage>>

NoFiles == [n \in {} |-> <<>>]
Absent == [kind |-> "absent", files |-> NoFiles]
EmptyDir == [kind |-> "dir", files |-> NoFiles]
PlainFile == [kind |-> "file", files |-> NoFiles]

Issue(k) == Pool[issues[k]]

\* os.path.exists(issue_target_path)
PathExists(t) == fs[t].kind # "absent"

ShouldSkipNever(refresh, exists) == FALSE

ShouldSkipExisting(refresh, exists) == exists

\* not full_refresh and os.path.exists(issue_target_path)
ShouldSkip(refresh, exists) == ~refresh /\ exists

FetchFailedNever(status) == FALSE

\* response.status_code != 200
FetchFailed(status) == status # 200

AdvanceOrBreak ==
  /\ i' = i + 1
  /\ pc' = "done"

\* the loop moves to the next issue, or get_issues returns
Advance ==
  /\ i' = i + 1
  /\ pc' = IF i = Len(issues) THEN "done" ELSE "loop"

InitRun ==
  /\ remote \in IssueLists
  /\ fs \in [Paths -> {Absent, EmptyDir, PlainFile}]
  /\ pc = "idle"
  /\ response = 0
  /\ issues = <<>>
  /\ full_refresh = FALSE
  /\ i = 0
  /\ console = <<>>
  /\ writes = {}
  /\ requests = {}
  /\ skipped = {}
  /\ prevRun = "none"
  /\ partial = {}

Init ==
  /\ InitRun
  /\ title = <<>> /\ cleaned = <<>> /\ recleaned = <<>> /\ cstage = "off"

\* One issue of the list is replaced, or an issue is added or removed at
\* either end of the list.
OneEdit(old, new) ==
  \/ /\ Len(new) = Len(old)
     /\ Cardinality({k \in 1..Len(old) : new[k] # old[k]}) = 1
  \/ /\ Len(new) = Len(old) + 1
     /\ \/ SubSeq(new, 1, Len(old)) = old
        \/ SubSeq(new, 2, Len(new)) = old
  \/ /\ Len(old) = Len(new) + 1
     /\ \/ SubSeq(old, 1, Len(new)) = new
        \/ SubSeq(old, 2, Len(old)) = new

\* between two calls the tracker's issues change
RemoteChange ==
  /\ pc = "idle"
  /\ \E new \in IssueLists :
       /\ OneEdit(remote, new)
       /\ remote' = new
  /\ prevRun' = "none"
  /\ UNCHANGED <<fs, pc, response, issues, full_refresh, i, console, writes, requests,
                 skipped, partial>>
  /\ UNCHANGED cleanVars

\* get_issues is called and sends the list request (lines 98-109)
Invoke ==
  /\ pc = "idle"
  /\ \E refresh \in BOOLEAN, status \in ListStatuses :
       /\ full_refresh' = refresh
       /\ response' = status
       /\ IF FetchFailed(status)
            THEN /\ console' = << <<"Failed to fetch issues:", " ", ListBody(status)>> >>
                 /\ pc' = "failed"
                 /\ UNCHANGED <<issues, i>>
            ELSE /\ console' = <<>>
                 /\ issues' = remote
                 /\ i' = 1
                 /\ pc' = IF remote = <<>> THEN "done" ELSE "loop"
  /\ UNCHANGED <<remote, fs, writes, requests, skipped, prevRun, partial>>
  /\ UNCHANGED cleanVars

\* lines 112-115 raise KeyError: the process ends
IssueKeyError ==
  /\ pc = "loop"
  /\ ~HeaderOk(Issue(i))
  /\ pc' = "crashed"
  /\ UNCHANGED <<remote, fs, response, issues, full_refresh, i, console, writes,
                 requests, skipped, prevRun, partial>>
  /\ UNCHANGED cleanVars

\* lines 122-124
SkipIssue ==
  /\ pc = "loop"
  /\ HeaderOk(Issue(i))
  /\ LET t == issue_target_path(Issue(i)) IN
       /\ ShouldSkip(full_refresh, PathExists(t))
       /\ console' = Append(console, <<"Skipping ">> \o t \o <<" as it already exists.">>)
  /\ skipped' = skipped \cup {i}
  /\ Advance
  /\ UNCHANGED <<remote, fs, response, issues, full_refresh, writes, requests, prevRun,
                 partial>>
  /\ UNCHANGED cleanVars

\* What lines 127-153 do to the issue folder, given the status of each
\* attachment request: the files left in it, the attachments requested and
\* stored, and ok = FALSE when a KeyError ended the export.
ExportInto(files, issue, status) ==
  LET w == RenderIssue(issue)
      withContent == ("content.txt" :> w.out) @@ files
  IN IF w.ok
       THEN download_attachments(withContent, AttachmentsOf(issue), status)
       ELSE [files |-> withContent, sent |-> {}, stored |-> {}, ok |-> FALSE]

\* lines 126-153: one issue is exported, with every attachment request it makes
ProcessIssue ==
  /\ pc = "loop"
  /\ HeaderOk(Issue(i))
  /\ LET issue == Issue(i)
         t     == issue_target_path(issue)
         atts  == AttachmentsOf(issue)
     IN
       /\ ~ShouldSkip(full_refresh, PathExists(t))
       /\ console' = Append(console, <<"Processing ">> \o t)
       /\ IF fs[t].kind = "file"
            THEN \* os.makedirs(exist_ok=True) raises FileExistsError on a non-directory
                 /\ pc' = "crashed"
                 /\ UNCHANGED <<fs, i, writes, requests, partial>>
            ELSE \E status \in [1..Len(atts) -> AttachmentStatuses] :
                   LET d == ExportInto(fs[t].files, issue, status) IN
                     /\ fs' = [fs EXCEPT ![t] = [kind |-> "dir", files |-> d.files]]
                     /\ writes' = writes
                          \cup (IF fs[t].kind = "absent" THEN {<<"mkdir", t, "">>} ELSE {})
                          \cup {<<"write", t, "content.txt">>}
                          \cup {<<"write", t, atts[k].name>> : k \in d.stored}
                     /\ requests' = requests \cup {<<i, k, status[k]>> : k \in d.sent}
                     /\ IF d.ok
                          THEN /\ partial' = partial \ {t}
                               /\ Advance
                          ELSE /\ partial' = partial \cup {t}
                               /\ pc' = "crashed"
                               /\ i' = i
  /\ UNCHANGED <<remote, response, issues, full_refresh, skipped, prevRun>>
  /\ UNCHANGED cleanVars

\* the process ends (line 158 returned, or an exception reached the top level)
ProcessExit ==
  /\ pc \in {"done", "failed", "crashed"}
  /\ pc' = "idle"
  /\ prevRun' = IF pc = "done" THEN (IF full_refresh THEN "refresh" ELSE "plain")
                ELSE "none"
  /\ response' = 0
  /\ issues' = <<>>
  /\ i' = 0
  /\ console' = <<>>
  /\ writes' = {}
  /\ requests' = {}
  /\ skipped' = {}
  /\ UNCHANGED <<remote, fs, full_refresh, partial>>
  /\ UNCHANGED cleanVars

Next == RemoteChange \/ Invoke \/ IssueKeyError \/ SkipIssue \/ ProcessIssue \/ ProcessExit

Spec == Init /\ [][Next]_vars

-----------------------------------------------------------------------------
(* clean_folder_name applied to every title up to MaxTitleLen, twice *)

TitleChars == {":", "/", " ", ".", "C", "O", "N", "n", "M", "1"}

Titles == UNION { [1..n -> TitleChars] : n \in 0..MaxTitleLen }

InitClean ==
  /\ InitRun
  /\ remote = <<>>
  /\ fs = [t \in Paths |-> Absent]
  /\ title \in Titles
  /\ cleaned = <<>> /\ recleaned = <<>> /\ cstage = "title"

CleanTitle ==
  /\ cstage = "title"
  /\ cleaned' = clean_folder_name(title)
  /\ cstage' = "cleaned"
  /\ UNCHANGED <<title, recleaned>>
  /\ UNCHANGED runVars

CleanAgain ==
  /\ cstage = "cleaned"
  /\ recleaned' = clean_folder_name(cleaned)
  /\ cstage' = "recleaned"
  /\ UNCHANGED <<title, cleaned>>
  /\ UNCHANGED runVars

NextClean == CleanTitle \/ CleanAgain

SpecClean == InitClean /\ [][NextClean]_vars

-----------------------------------------------------------------------------
(* Properties of the export runs (checked under Spec) *)

TargetOf(k) == issue_target_path(Issue(k))

HasContent(t) == fs[t].kind = "dir" /\ "content.txt" \in DOMAIN fs[t].files

Returned == pc = "done"

\* C1: when a call without full_refresh returns after its loop, and the call
\* before it returned after its loop over the same remote data, it has written
\* nothing (no directory, no content.txt, no attachment), has sent no
\* attachment request and has skipped every issue of the fetched list.
C1_SecondRunWritesNothing ==
  (Returned /\ prevRun # "none" /\ ~full_refresh)
    => /\ writes = {}
       /\ requests = {}
       /\ skipped = 1..Len(issues)

C1_Witness ==
  /\ Returned /\ prevRun = "plain" /\ ~full_refresh
  /\ issues = <<1, 4>>
  /\ skipped = {1, 2}
  /\ HasContent(TargetOf(1)) /\ HasContent(TargetOf(2))

\* C2: a list request answered with a status other than 200 makes get_issues
\* print the response body and return: no issue is fetched, skipped or
\* processed, nothing is written or requested, and the step that fails leaves
\* the exports directory as earlier calls left it.
C2_FailedFetchReturnsUntouched ==
  /\ [](response \notin {0, 200}
          => /\ pc = "failed"
             /\ console = << <<"Failed to fetch issues:", " ", ListBody(response)>> >>
             /\ issues = <<>> /\ skipped = {} /\ writes = {} /\ requests = {})
  /\ [][response' \notin {0, 200} => fs' = fs]_vars

C2_Witness ==
  /\ response = 403 /\ pc = "failed"
  /\ remote # <<>>
  /\ \E t \in Paths : HasContent(t)

\* C3: in the step that processes an issue, an attachment whose request is
\* answered with a status other than 200 gets no file (its name is left as it
\* was unless content.txt or a sibling that was stored has that name), every
\* attachment answered with 200 is stored under its name in the issue folder,
\* the folder and its content.txt exist afterwards, and the call goes on to
\* the next issue unless a record lacked a key.
C3_FailedAttachmentOnlySkipsItself ==
  [][ (pc = "loop" /\ HeaderOk(Issue(i))
         /\ fs[issue_target_path(Issue(i))].kind # "file"
         /\ console' = Append(console, <<"Processing ">> \o issue_target_path(Issue(i))))
      => LET issue == Issue(i)
             t     == issue_target_path(issue)
             atts  == AttachmentsOf(issue)
             sent  == { k \in 1..Len(atts) : \E st \in AttachmentStatuses :
                                                <<i, k, st>> \in requests' }
             good  == { k \in sent : <<i, k, 200>> \in requests' /\ Has(atts[k], "name") }
             bad   == { k \in sent : <<i, k, 200>> \notin requests' /\ Has(atts[k], "name") }
         IN  /\ fs'[t].kind = "dir" /\ "content.txt" \in DOMAIN fs'[t].files
             /\ \A k \in bad :
                  (atts[k].name # "content.txt"
                     /\ \A j \in good : atts[j].name # atts[k].name)
                  => /\ <<"write", t, atts[k].name>> \notin (writes' \ writes)
                     /\ atts[k].name \in DOMAIN fs'[t].files
                          <=> atts[k].name \in DOMAIN fs[t].files
                     /\ atts[k].name \in DOMAIN fs[t].files
                          => fs'[t].files[atts[k].name] = fs[t].files[atts[k].name]
             /\ \A k \in good :
                  /\ <<"write", t, atts[k].name>> \in writes'
                  /\ atts[k].name \in DOMAIN fs'[t].files
                  /\ (\A j \in good : j > k => atts[j].name # atts[k].name)
                       => fs'[t].files[atts[k].name] = Bytes(atts[k].url)
             /\ (RenderIssue(issue).ok
                   /\ \A k \in 1..Len(atts) : Has(atts[k], "url") /\ Has(atts[k], "name"))
                  => /\ sent = 1..Len(atts)
                     /\ i' = i + 1
                     /\ pc' = IF i = Len(issues) THEN "done" ELSE "loop" ]_vars

C3_Witness ==
  /\ pc = "loop" /\ issues = <<1, 4>> /\ i = 2
  /\ <<1, 1, 404>> \in requests /\ <<1, 2, 200>> \in requests
  /\ HasContent(TargetOf(1))
  /\ "a.png" \notin DOMAIN fs[TargetOf(1)].files
  /\ fs[TargetOf(1)].files["b.png"] = Bytes("/api/files/2")

\* C4 as stated: once get_issues has returned after its loop, every issue of
\* the fetched list has its target folder with a content.txt in it.
C4_Original ==
  Returned => \A k \in 1..Len(issues) : HasContent(TargetOf(k))

\* C4 amended: once get_issues has returned after its loop, every issue of the
\* fetched list that was not skipped has its target folder with a content.txt
\* in it; with full_refresh no issue is skipped; a skipped issue's target path
\* exists and is left as the call found it.
C4_ProcessedIssuesMaterialized ==
  Returned
    => /\ \A k \in 1..Len(issues) : k \notin skipped => HasContent(TargetOf(k))
       /\ \A k \in skipped : ~full_refresh /\ PathExists(TargetOf(k))
       /\ full_refresh => \A k \in 1..Len(issues) : HasContent(TargetOf(k))

C4_Witness ==
  /\ Returned /\ ~full_refresh
  /\ issues = <<1, 4>>
  /\ skipped = {1}
  /\ fs[TargetOf(1)] = EmptyDir
  /\ HasContent(TargetOf(2))

\* C5: with full_refresh no issue is skipped, and after an issue has been
\* processed the content.txt of its folder is the text written from the
\* fetched issue (until a later issue of the list with the same folder is
\* processed), whatever the folder held before; so a second refresh over the
\* same data leaves the same content.txt.
C5_RefreshRewritesContent ==
  (pc \in {"loop", "done"} /\ full_refresh)
    => /\ skipped = {}
       /\ \A k \in 1..(i - 1) :
            (\A j \in (k + 1)..(i - 1) : TargetOf(j) # TargetOf(k))
              => /\ HasContent(TargetOf(k))
                 /\ fs[TargetOf(k)].files["content.txt"] = RenderIssue(Issue(k)).out

\* C8: a loop step of a call without full_refresh that finds the target path
\* of its issue existing as a directory changes nothing on disk, sends no
\* request, prints the skip message and moves to the next issue of the list
\* (or returns when the issue was the last).
C8_SkipLeavesIssueAndContinues ==
  [][ (pc = "loop" /\ ~full_refresh /\ HeaderOk(Issue(i))
         /\ fs[issue_target_path(Issue(i))].kind = "dir")
      => /\ fs' = fs /\ writes' = writes /\ requests' = requests
         /\ console' = Append(console, <<"Skipping ">> \o issue_target_path(Issue(i))
                                          \o <<" as it already exists.">>)
         /\ skipped' = skipped \cup {i}
         /\ issues' = issues
         /\ i' = i + 1
         /\ pc' = IF i < Len(issues) THEN "loop" ELSE "done" ]_vars

C8_Witness ==
  /\ pc = "loop" /\ ~full_refresh
  /\ issues = <<3, 1>> /\ i = 2
  /\ skipped = {1}
  /\ writes = {} /\ requests = {}
  /\ fs[TargetOf(1)].kind = "dir"
  /\ Len(console) = 1

\* The first and the last position of the fetched list with the target path of k.
FirstWith(k) == CHOOSE a \in 1..Len(issues) :
                  /\ TargetOf(a) = TargetOf(k)
                  /\ \A b \in 1..(a - 1) : TargetOf(b) # TargetOf(k)
LastWith(k) == CHOOSE a \in 1..Len(issues) :
                  /\ TargetOf(a) = TargetOf(k)
                  /\ \A b \in (a + 1)..Len(issues) : TargetOf(b) # TargetOf(k)

\* C9: when get_issues has returned and two issues of the fetched list have the
\* same target path: without full_refresh, if the existence check let the
\* earlier one through, the later one was skipped and content.txt holds the
\* text of the earlier issue; with full_refresh both were processed and
\* content.txt holds the text of the later issue.
C9_CollidingIssues ==
  Returned
    => \A k \in 1..Len(issues) :
         LET a == FirstWith(k)
             b == LastWith(k)
             t == TargetOf(k)
         IN a < b
            => /\ (~full_refresh /\ a \notin skipped)
                 => /\ b \in skipped
                    /\ HasContent(t)
                    /\ fs[t].files["content.txt"] = RenderIssue(Issue(a)).out
               /\ full_refresh
                 => /\ skipped = {}
                    /\ HasContent(t)
                    /\ fs[t].files["content.txt"] = RenderIssue(Issue(b)).out

\* C10: a target path whose last export was ended by a fault is a directory;
\* a loop step of a call without full_refresh leaves it exactly as it is and
\* skips an issue that has it as target; only a loop step of a call with
\* full_refresh on an issue with that target changes it or completes it.
C10_PartialExportStaysUntilRefresh ==
  /\ [](\A t \in partial : fs[t].kind = "dir")
  /\ [][ \A t \in partial :
           /\ (pc = "loop" /\ ~full_refresh)
                => /\ fs'[t] = fs[t]
                   /\ t \in partial'
                   /\ (HeaderOk(Issue(i)) /\ issue_target_path(Issue(i)) = t)
                        => i \in skipped'
           /\ (fs'[t] # fs[t] \/ t \notin partial')
                => /\ pc = "loop" /\ full_refresh
                   /\ HeaderOk(Issue(i))
                   /\ issue_target_path(Issue(i)) = t ]_vars

C10_Witness ==
  /\ Returned /\ ~full_refresh
  /\ issues = <<3>>
  /\ skipped = {1}
  /\ TargetOf(1) \in partial
  /\ ~RenderIssue(Issue(1)).ok
  /\ fs[TargetOf(1)].files = ("content.txt" :> RenderIssue(Issue(1)).out)

-----------------------------------------------------------------------------
(* Properties of clean_folder_name (checked under SpecClean) *)

ContainsInvalid(name) ==
  \E k \in 1..Len(name), j \in 1..Len(invalid_chars) : name[k] = invalid_chars[j]

\* equal to a reserved device name when case is ignored
IsReserved(name) ==
  \E r \in reserved_names :
    /\ Len(r) = Len(name)
    /\ \A k \in 1..Len(r) : UpperChar(name[k]) = r[k]

\* C6: the name clean_folder_name returns for a title holds none of the
\* characters < > : " / \ | ? *, is no reserved device name in any case and
\* does not begin with a dot; for a title beginning with a dot it begins with
\* "_.", and for a title that is a reserved name it is "_" and the title.
C6_CleanNameIsSafe ==
  cstage \in {"cleaned", "recleaned"}
    => /\ ~ContainsInvalid(cleaned)
       /\ ~IsReserved(cleaned)
       /\ ~StartsWithDot(cleaned)
       /\ StartsWithDot(title)
            => Len(cleaned) >= 2 /\ cleaned[1] = "_" /\ cleaned[2] = "."
       /\ IsReserved(title) => cleaned = <<"_">> \o title

C6_Witness ==
  /\ cstage = "cleaned"
  /\ title = <<"C", ":", "O", "n">>
  /\ cleaned = <<"_", "C", "O", "n">>

\* a name with no forbidden character, no space and no reserved-name content
IsCleanName(name) ==
  /\ ~ContainsInvalid(name)
  /\ \A k \in 1..Len(name) : name[k] # " "
  /\ ~IsReserved(name)

\* C7: for a name with no forbidden character, no space and that is no
\* reserved name, cleaning the cleaned name gives the cleaned name again.
C7_CleanIsIdempotent ==
  (cstage = "recleaned" /\ IsCleanName(title)) => recleaned = cleaned

C7_Witness ==
  /\ cstage = "recleaned"
  /\ title = <<".", "N">>
  /\ IsCleanName(title)
  /\ cleaned = <<"_", ".", "N">>
  /\ recleaned = cleaned

====
